---- MODULE Spec2Model ----
(***************************************************************************)
(* A model of the rensen backup daemon (daemon/src/main.rs and             *)
(* daemon/src/daemon.rs): startup and schedule parsing, the scheduler      *)
(* loop with its due-check, the spawned backup tasks, the task queue and   *)
(* the mutex shared by the scheduler and executor activities; and of      *)
(* hash_file (src/utils.rs).                                               *)
(*                                                                         *)
(* Time is wall-clock time in whole seconds since local midnight of day 0  *)
(* (2024-01-01).  The cron crate produces whole-second instants and        *)
(* `after(t)` returns the first instant strictly greater than t, so the    *)
(* sub-second part of a reading never changes a result: the first instant  *)
(* > t is the first instant > floor(t).                                    *)
(***************************************************************************)
EXTENDS Integers, Sequences, FiniteSets, TLC

\* ------------------------------------------------------------------ bounds
\* Number of ticks of the scheduler loop that are explored.
MaxTicks == 2
\* Greatest number of hosts in the settings file.
MaxHosts == 2
\* Greatest number of backup tasks spawned in one run.
MaxTasks == 2
\* Greatest wake-up latency, in seconds, between the instant a tick falls
\* due and the instant Local::now() is read.
MaxJitter == 2
\* Greatest delay, in seconds, between the scheduler's Local::now() and the
\* Local::now() that Schedule::upcoming reads inside should_run.
MaxLag == 0
\* Greatest number of operations applied to a task queue on its own.
MaxOps == 7
\* Greatest number of worker threads of the tokio runtime (one per core).
MaxWorkers == 2
\* Greatest number of bytes a hashed file has beyond one read buffer.
MaxExtra == 2

\* ---------------------------------------------------------------- constants
\* `let mut buffer = [0; 1024]` in hash_file.
BufferSize == 1024

\* ------------------------------------------------------- program constants
\* interval(Duration::from_secs(60))
TickInterval == 60

\* ------------------------------------------------------------------- time
Min(S) == CHOOSE x \in S : \A y \in S : x <= y

DayOf(t)    == t \div 86400
HourOf(t)   == (t \div 3600) % 24
MinuteOf(t) == (t \div 60) % 60
SecondOf(t) == t % 60
At(d, h, m, s) == d * 86400 + h * 3600 + m * 60 + s

\* now.with_second(0).unwrap().with_nanosecond(0).unwrap()
TruncMinute(t) == t - SecondOf(t)

\* ------------------------------------------------------------ cron crate
\* A cron expression is the sequence of its whitespace-separated fields.
\* The cron crate's grammar is
\*   seconds minutes hours day-of-month month day-of-week [year]
\* so an expression of fewer than six or more than seven fields is an error.
Digits == [x \in {"0", "7", "30", "2023"} |->
             CASE x = "0" -> 0 [] x = "7" -> 7 [] x = "30" -> 30 [] x = "2023" -> 2023]

\* The set of values one field denotes within lo..hi; {} when malformed.
FieldSet(tok, lo, hi) ==
    IF tok = "*" THEN lo..hi
    ELSE IF tok \in DOMAIN Digits /\ Digits[tok] >= lo /\ Digits[tok] <= hi
         THEN {Digits[tok]}
         ELSE {}

ParsedFields(expr) ==
    [secs   |-> FieldSet(expr[1], 0, 59),
     mins   |-> FieldSet(expr[2], 0, 59),
     hours  |-> FieldSet(expr[3], 0, 23),
     doms   |-> FieldSet(expr[4], 1, 31),
     months |-> FieldSet(expr[5], 1, 12),
     dows   |-> FieldSet(expr[6], 1, 7),
     years  |-> IF Len(expr) = 7 THEN FieldSet(expr[7], 1970, 2100) ELSE 1970..2100]

\* Schedule::from_str: [ok |-> TRUE, schedule |-> s] or [ok |-> FALSE].
from_str(expr) ==
    IF Len(expr) < 6 \/ Len(expr) > 7 THEN [ok |-> FALSE]
    ELSE LET s == ParsedFields(expr)
         IN IF \E f \in DOMAIN s : s[f] = {}
            THEN [ok |-> FALSE]
            ELSE [ok |-> TRUE, schedule |-> s]

\* Schedule::after(t): the first instant of the schedule strictly after t,
\* as a set of at most one element.  The expressions of the model leave
\* day-of-month, month and day-of-week unrestricted, so within a permitted
\* year the schedule repeats daily; the explored instants lie in 2024.
after(s, t) ==
    IF 2024 \notin s.years THEN {}
    ELSE LET u     == t + 1
             d     == DayOf(u)
             h     == HourOf(u)
             m     == MinuteOf(u)
             secGE == {x \in s.secs : x >= SecondOf(u)}
             minGT == {x \in s.mins : x > m}
             hrGT  == {x \in s.hours : x > h}
         IN IF h \in s.hours /\ m \in s.mins /\ secGE # {}
            THEN {At(d, h, m, Min(secGE))}
            ELSE IF h \in s.hours /\ minGT # {}
            THEN {At(d, h, Min(minGT), Min(s.secs))}
            ELSE IF hrGT # {}
            THEN {At(d, Min(hrGT), Min(s.mins), Min(s.secs))}
            ELSE {At(d + 1, Min(s.hours), Min(s.mins), Min(s.secs))}

\* Whether the schedule has an instant inside the minute that holds t.
FiresInMinuteOf(s, t) ==
    /\ 2024 \in s.years
    /\ HourOf(t) \in s.hours
    /\ MinuteOf(t) \in s.mins

\* ------------------------------------------------------------ options
NoneOpt == [some |-> FALSE]
Some(v) == [some |-> TRUE, val |-> v]

\* ------------------------------------------------------------- TaskQueue
\* TaskQueue<T> wraps a VecDeque<T>, modelled as a sequence, head first.
new == << >>

\* A push that drops a value equal to one already queued.
pushb_dedup(q, val) ==
    IF \E i \in DOMAIN q : q[i] = val THEN q ELSE Append(q, val)

\* VecDeque::push_back
pushb(q, val) == Append(q, val)

\* A pop from the wrong end (pop_back).
popf_back(q) ==
    IF q = << >> THEN [ret |-> NoneOpt, tasks |-> q]
    ELSE [ret |-> Some(q[Len(q)]), tasks |-> SubSeq(q, 1, Len(q) - 1)]

\* VecDeque::pop_front: the returned option and the queue left behind.
popf(q) ==
    IF q = << >> THEN [ret |-> NoneOpt, tasks |-> q]
    ELSE [ret |-> Some(Head(q)), tasks |-> Tail(q)]

is_empty(q) == q = << >>

len(q) == Len(q)

\* A peek at the wrong end (back).
peek_back(q) == IF q = << >> THEN NoneOpt ELSE Some(q[Len(q)])

\* VecDeque::front
peek(q) == IF q = << >> THEN NoneOpt ELSE Some(Head(q))

\* ------------------------------------------------- hosts and settings
EverySecond   == <<"*", "*", "*", "*", "*", "*">>
\* the expression of test_cron
TestCron      == <<"*", "0", "0", "*", "*", "*">>
MidnightDaily == <<"0", "0", "0", "*", "*", "*">>
\* the five-field form of "midnight daily"
FiveField     == <<"0", "0", "*", "*", "*">>
PastYear      == <<"0", "0", "0", "*", "*", "*", "2023">>
\* the literal parse_schedules falls back to
DefaultCron   == <<"0", "0", "0", "*", "*">>

\* not a cron expression at all
Garbage       == <<"every", "day">>

CronPool == {EverySecond, TestCron, MidnightDaily, FiveField, PastYear, Garbage}

HostNames == {"alpha", "beta"}

\* Host: hostname and config.cron_schedule (an Option<String>).
HostPool ==
    [hostname : HostNames, cron_schedule : {Some(c) : c \in CronPool} \cup {NoneOpt}]
    \cup {[hostname |-> "dummy", cron_schedule |-> Some(EverySecond)]}

\* The settings files explored: host lists without a repeated hostname.
SettingsPool ==
    {s \in UNION {[1..n -> HostPool] : n \in 0..MaxHosts} :
        \A i, j \in DOMAIN s : i # j => s[i].hostname # s[j].hostname}

HostsOf(s) == {s[i].hostname : i \in DOMAIN s}

Trap(kind, host) == [kind |-> kind, host |-> host]

\* -------------------------------------------------------- parse_schedules
\* One iteration of the loop over settings.hosts, on the accumulated result
\* [schedules, log, panicked].
parse_host(acc, host) ==
    IF host.hostname = "dummy" THEN acc
    ELSE IF host.cron_schedule.some
    THEN LET r == from_str(host.cron_schedule.val)
         IN IF r.ok
            THEN [acc EXCEPT !.schedules =
                     Append(@, [host |-> host, schedule |-> r.schedule])]
            ELSE [acc EXCEPT !.log = Append(@, Trap("InvalidInput", host.hostname))]
    ELSE LET logged == [acc EXCEPT !.log = Append(@, Trap("Missing", host.hostname))]
             d      == from_str(DefaultCron)
         IN IF d.ok
            THEN [logged EXCEPT !.schedules =
                     Append(@, [host |-> host, schedule |-> d.schedule])]
            ELSE \* Schedule::from_str(..).unwrap() on an Err panics
                 [logged EXCEPT !.panicked = TRUE]

RECURSIVE ParseFrom(_, _, _)
ParseFrom(hosts, i, acc) ==
    IF i > Len(hosts) \/ acc.panicked THEN acc
    ELSE ParseFrom(hosts, i + 1, parse_host(acc, hosts[i]))

parse_schedules(hosts, log0) ==
    ParseFrom(hosts, 1, [schedules |-> << >>, log |-> log0, panicked |-> FALSE])

\* ---------------------------------------------------------------- should_run
\* `lag` is how much later than `now` Schedule::upcoming reads Local::now().
should_run(now, host_schedule, lag) ==
    LET current_time   == TruncMinute(now)
        upcoming_times == after(host_schedule.schedule, now + lag)
    IN IF upcoming_times # {}
       THEN LET scheduled_time == CHOOSE x \in upcoming_times : TRUE
            IN current_time = TruncMinute(scheduled_time)
       ELSE FALSE

\* ------------------------------------------------------------------ Record
RecordStates == {"missing", "corrupt", "valid"}

\* Record::deserialize_json on a record file in the given state.
deserialize_json(file) ==
    IF file = "valid" THEN [ok |-> TRUE, record |-> "prior"] ELSE [ok |-> FALSE]

\* ------------------------------------------------------------------- state
VARIABLES
    mainPc,      \* position of main: load_config, load_settings, parse,
                 \* spawn, join; exit_err (returned Err), panic
    exitErr,     \* the Trap kind main returned, or "none"
    settings,    \* settings.hosts as deserialized
    schedules,   \* BackupScheduler.schedules
    queue,       \* BackupScheduler.queue.tasks
    log,         \* the traps given to log_trap, in order
    mutex,       \* holder of the Mutex around the scheduler: free, scheduler, executor
    schedPc,     \* the scheduler activity: none, lock, loop
    execPc,      \* the executor activity: none, lock, loop
    base,        \* the instant the next tick of the interval falls due
    ticks,       \* ticks of the scheduler loop completed
    tasks,       \* the backup tasks spawned so far, in spawn order
    recordFile,  \* state of each host's record.json on disk
    checks,      \* history: the due-checks of the latest tick, in evaluation order
    dueLog,      \* history: every due-check that answered true
    workers,     \* worker threads of the runtime #[tokio::main] builds
    dequeued,    \* history: indexes of the tasks the executor popped and dispatched
    pushed,      \* history: the values pushed onto a queue exercised on its own
    popped,      \* history: the values its popf calls returned
    lastOp,      \* history: the latest queue operation and what it returned
    hashed,      \* history: the latest call of hash_file and what it returned
    hashedBefore \* history: the call of hash_file before that one

vars == <<mainPc, exitErr, settings, schedules, queue, log, mutex, schedPc, execPc,
          base, ticks, tasks, recordFile, workers, checks, dueLog, dequeued, pushed,
          popped, lastOp, hashed, hashedBefore>>

daemonVars == <<mainPc, exitErr, settings, schedules, log, mutex, schedPc, execPc,
                base, ticks, tasks, recordFile, workers, checks, dueLog, dequeued>>
hashVars == <<hashed, hashedBefore>>
harnessVars == <<pushed, popped, lastOp, hashVars>>
queueVars == <<queue, pushed, popped, lastOp>>

NoCall == [called |-> FALSE]

NoOp == [op |-> "none", ret |-> NoneOpt, before |-> << >>, n |-> 0]

\* The runtimes explored: the multi-thread runtime has one worker thread per
\* core, so a single-core host has one and the largest host MaxWorkers.
Workers == {1, MaxWorkers}

\* The instants at which the scheduler's interval may be created: seven
\* seconds past midnight, and two seconds before the end of that minute.
StartTimes == {7, 58}

Init ==
    /\ mainPc = "load_config"
    /\ exitErr = "none"
    /\ settings = << >>
    /\ schedules = << >>
    /\ queue = new
    /\ log = << >>
    /\ mutex = "free"
    /\ schedPc = "none"
    /\ execPc = "none"
    /\ base = 0
    /\ ticks = 0
    /\ tasks = << >>
    /\ recordFile \in [HostNames -> RecordStates]
    /\ workers \in Workers
    /\ checks = << >>
    /\ dueLog = {}
    /\ dequeued = {}
    /\ pushed = << >>
    /\ popped = << >>
    /\ lastOp = NoOp
    /\ hashed = NoCall
    /\ hashedBefore = NoCall

\* ------------------------------------------------------------------- main
\* A failed load of the global configuration that is reported and survived.
LoadConfig_Continues ==
    /\ mainPc = "load_config"
    /\ \E ok \in BOOLEAN :
         IF ok THEN mainPc' = "load_settings" /\ UNCHANGED exitErr
         ELSE mainPc' = "load_settings" /\ exitErr' = "FS"
    /\ UNCHANGED <<settings, schedules, queue, log, mutex, schedPc, execPc, base,
                   ticks, tasks, recordFile, checks, dueLog, dequeued, harnessVars, workers>>

\* GlobalConfig::deserialize_yaml(..).map_err(..)?
LoadConfig ==
    /\ mainPc = "load_config"
    /\ \E ok \in BOOLEAN :
         IF ok THEN mainPc' = "load_settings" /\ UNCHANGED exitErr
         ELSE mainPc' = "exit_err" /\ exitErr' = "FS"
    /\ UNCHANGED <<settings, schedules, queue, log, mutex, schedPc, execPc, base,
                   ticks, tasks, recordFile, checks, dueLog, dequeued, harnessVars, workers>>

\* Settings::deserialize_yaml(..).map_err(..)?  The settings files explored
\* name every host that has a record directory on disk.
LoadSettings ==
    /\ mainPc = "load_settings"
    /\ \/ /\ \E s \in SettingsPool :
               /\ \A h \in HostNames :
                    h \notin HostsOf(s) => recordFile[h] = "missing"
               /\ settings' = s
          /\ mainPc' = "parse"
          /\ UNCHANGED exitErr
       \/ /\ mainPc' = "exit_err"
          /\ exitErr' = "FS"
          /\ UNCHANGED settings
    /\ UNCHANGED <<schedules, queue, log, mutex, schedPc, execPc, base,
                   ticks, tasks, recordFile, checks, dueLog, dequeued, harnessVars, workers>>

\* parse_schedules(..)? followed by Scheduler::from(..)
ParseSchedules ==
    /\ mainPc = "parse"
    /\ LET r == parse_schedules(settings, log)
       IN /\ log' = r.log
          /\ IF r.panicked
             THEN mainPc' = "panic" /\ UNCHANGED <<schedules, queue>>
             ELSE mainPc' = "spawn" /\ schedules' = r.schedules /\ queue' = new
    /\ UNCHANGED <<exitErr, settings, mutex, schedPc, execPc, base,
                   ticks, tasks, recordFile, checks, dueLog, dequeued, harnessVars, workers>>

\* the two tokio::spawn calls; main then waits in try_join!
SpawnActivities ==
    /\ mainPc = "spawn"
    /\ mainPc' = "join"
    /\ schedPc' = "lock"
    /\ execPc' = "lock"
    /\ UNCHANGED <<exitErr, settings, schedules, queue, log, mutex, base,
                   ticks, tasks, recordFile, checks, dueLog, dequeued, harnessVars, workers>>

\* backup_scheduler_clone.lock().await, then run_scheduler up to its loop:
\* the guard lives until run_scheduler returns.
SchedulerLock ==
    /\ schedPc = "lock"
    /\ mutex = "free"
    /\ mutex' = "scheduler"
    /\ schedPc' = "loop"
    /\ \E t \in StartTimes : base' = t
    /\ UNCHANGED <<mainPc, exitErr, settings, schedules, queue, log, execPc,
                   ticks, tasks, recordFile, checks, dueLog, dequeued, harnessVars, workers>>

\* executor_backup_scheduler_clone.lock().await
ExecutorLock ==
    /\ execPc = "lock"
    /\ mutex = "free"
    /\ mutex' = "executor"
    /\ execPc' = "loop"
    /\ UNCHANGED <<mainPc, exitErr, settings, schedules, queue, log, schedPc, base,
                   ticks, tasks, recordFile, checks, dueLog, dequeued, harnessVars, workers>>

\* ---------------------------------------------------------- run_scheduler
\* The delays of the successive should_run calls of one tick: the clock
\* does not run backwards between two calls.
Lags(n) == {l \in [1..n -> 0..MaxLag] : \A i, j \in 1..n : i <= j => l[i] <= l[j]}

\* The due-checks of one tick, in the order of self.schedules.iter().
due_checks(now, lags) ==
    [i \in 1..Len(schedules) |->
        [host  |-> schedules[i].host.hostname,
         tick  |-> ticks,
         fires |-> FiresInMinuteOf(schedules[i].schedule, now),
         due   |-> should_run(now, schedules[i], lags[i])]]

\* BackupTask { global_config, host } as handed to tokio::spawn, with the
\* tick that built it and whether some task had failed by then (history).
BackupTask(hostname) ==
    [host |-> hostname, pc |-> "spawned", tick |-> ticks,
     afterFailure |-> \E j \in DOMAIN tasks : tasks[j].pc = "failed"]

\* A loop that spawns a task for every schedule, due or not.
spawn_all(cs) ==
    [k \in 1..Len(cs) |-> BackupTask(cs[k].host)]

\* The tasks one tick spawns: one per due schedule, in evaluation order.
spawn_due(cs) ==
    LET dueSeq == SelectSeq(cs, LAMBDA c : c.due)
    IN [k \in 1..Len(dueSeq) |-> BackupTask(dueSeq[k].host)]

\* A task is running from the moment the runtime polls it until run returns.
Running(t) == t.pc = "backup"
Ended(t) == t.pc \in {"done", "failed"}

\* BackupTask::run is polled on a worker thread and makes blocking calls
\* (sftp.backup() is not awaited), so a running task keeps its worker until
\* run returns; a future is polled only when a worker is free.
Busy == Cardinality({i \in DOMAIN tasks : Running(tasks[i])})
FreeWorker == Busy < workers

\* What one tick may observe: the due-checks made at the reading
\* now = base + jitter, with the minute that reading lies in.
TickReadings ==
    {[cs     |-> due_checks(base + jitter, lags),
      minute |-> TruncMinute(base + jitter)] :
        jitter \in 0..MaxJitter, lags \in Lags(Len(schedules))}

\* One iteration of the loop: interval.tick().await, Local::now(), the for
\* loop over the schedules with its tokio::spawn calls.
Tick ==
    /\ schedPc = "loop"
    /\ ticks < MaxTicks
    /\ FreeWorker
    /\ \E r \in TickReadings :
         LET nt == spawn_due(r.cs)
         IN /\ Len(tasks) + Len(nt) <= MaxTasks
            /\ tasks' = tasks \o nt
            /\ checks' = r.cs
            /\ dueLog' = dueLog \cup
                 {[host |-> r.cs[i].host, tick |-> ticks, minute |-> r.minute] :
                     i \in {j \in DOMAIN r.cs : r.cs[j].due}}
    /\ base' = base + TickInterval
    /\ ticks' = ticks + 1
    /\ UNCHANGED <<mainPc, exitErr, settings, schedules, queue, log, mutex, schedPc,
                   execPc, recordFile, dequeued, harnessVars, workers>>

\* ------------------------------------------------------------ BackupTask::run
\* A task error that escapes the spawned block and ends the scheduler loop.
TaskFail_Propagates(i, kind) ==
    /\ tasks' = [tasks EXCEPT ![i].pc = "failed"]
    /\ schedPc' = "exited"
    /\ UNCHANGED <<mainPc, exitErr, settings, schedules, queue, log, mutex,
                   execPc, base, ticks, recordFile, checks, dueLog, dequeued,
                   harnessVars, workers>>

\* The Err arm of the spawned block: run returned Err, log_trap records it
\* and the block ends.
TaskFail(i, kind) ==
    /\ tasks' = [tasks EXCEPT ![i].pc = "failed"]
    /\ log' = Append(log, Trap(kind, tasks[i].host))
    /\ UNCHANGED <<mainPc, exitErr, settings, schedules, queue, mutex, schedPc,
                   execPc, base, ticks, recordFile, checks, dueLog, dequeued,
                   harnessVars, workers>>

\* A run that goes on to the transfer whatever reading the record returned.
TaskStart_IgnoresError(i) ==
    /\ i \in DOMAIN tasks
    /\ tasks[i].pc = "spawned"
    /\ FreeWorker
    /\ tasks' = [tasks EXCEPT ![i].pc = "backup"]
    /\ UNCHANGED <<mainPc, exitErr, settings, schedules, queue, log, mutex,
                   schedPc, execPc, base, ticks, recordFile, checks,
                   dueLog, dequeued, harnessVars, workers>>

\* run up to Sftp::new: the record is read, and `?` returns its error.
TaskStart(i) ==
    /\ i \in DOMAIN tasks
    /\ tasks[i].pc = "spawned"
    /\ FreeWorker
    /\ LET r == deserialize_json(recordFile[tasks[i].host])
       IN IF r.ok
          THEN /\ tasks' = [tasks EXCEPT ![i].pc = "backup"]
               /\ UNCHANGED <<mainPc, exitErr, settings, schedules, queue, log, mutex,
                              schedPc, execPc, base, ticks, recordFile, checks,
                              dueLog, dequeued, harnessVars, workers>>
          ELSE TaskFail(i, "FS")

\* The kinds of error Sftp::backup is taken to return.
BackupErrors == {"FS"}

\* sftp.backup()? and the Ok(()) after it.  A successful backup leaves a
\* readable record behind; a failed one leaves the record as it was.
TaskBackup(i) ==
    /\ i \in DOMAIN tasks
    /\ tasks[i].pc = "backup"
    /\ \/ /\ tasks' = [tasks EXCEPT ![i].pc = "done"]
          /\ recordFile' = [recordFile EXCEPT ![tasks[i].host] = "valid"]
          /\ UNCHANGED <<mainPc, exitErr, settings, schedules, queue, log, mutex,
                         schedPc, execPc, base, ticks, checks, dueLog, dequeued,
                         harnessVars, workers>>
       \/ \E kind \in BackupErrors : TaskFail(i, kind)

\* --------------------------------------------------------------- run_executor
\* One iteration of the executor's drain loop: pop one task; dispatch it
\* unless a task for its host is running, in which case it goes back to the
\* tail; an empty queue leaves everything as it is.
run_executor ==
    /\ execPc = "loop"
    /\ LET r == popf(queue)
       IN IF r.ret.some
          THEN IF \E j \in DOMAIN tasks : tasks[j].host = r.ret.val.host /\ ~Ended(tasks[j])
               THEN queue' = pushb(r.tasks, r.ret.val) /\ UNCHANGED <<tasks, dequeued>>
               ELSE /\ queue' = r.tasks
                    /\ tasks' = Append(tasks, BackupTask(r.ret.val.host))
                    /\ dequeued' = dequeued \cup {Len(tasks) + 1}
          ELSE UNCHANGED <<queue, tasks, dequeued>>
    /\ UNCHANGED <<mainPc, exitErr, settings, schedules, log, mutex, schedPc, execPc,
                   base, ticks, recordFile, checks, dueLog, harnessVars, workers>>

\* -------------------------------------------------------------- specification
Next ==
    \/ LoadConfig
    \/ LoadSettings
    \/ ParseSchedules
    \/ SpawnActivities
    \/ SchedulerLock
    \/ ExecutorLock
    \/ Tick
    \/ \E i \in 1..MaxTasks : TaskStart(i)
    \/ \E i \in 1..MaxTasks : TaskBackup(i)
    \/ run_executor

Spec == Init /\ [][Next]_vars

\* The tokio runtime polls every spawned future that is ready: an activity
\* whose lock can be taken takes it, the interval keeps ticking, and a
\* spawned task runs.
FairSpec ==
    /\ Spec
    /\ WF_vars(SchedulerLock)
    /\ WF_vars(ExecutorLock)
    /\ WF_vars(Tick)
    /\ WF_vars(run_executor)
    /\ WF_vars(\E i \in 1..MaxTasks : TaskStart(i))

\* ------------------------------------------------ a task queue on its own
\* The queue's operations applied in any order to a queue of its own, as a
\* unit test would apply them.
QueueValues == {[host |-> h] : h \in HostNames}

QInit ==
    /\ Init
    /\ recordFile = [h \in HostNames |-> "missing"]
    /\ workers = MaxWorkers

Op(op, ret, before) == [op |-> op, ret |-> ret, before |-> before, n |-> lastOp.n + 1]

QPushb ==
    /\ lastOp.n < MaxOps
    /\ \E v \in QueueValues :
         /\ queue' = pushb(queue, v)
         /\ pushed' = Append(pushed, v)
         /\ lastOp' = Op("pushb", Some(v), queue)
    /\ UNCHANGED <<daemonVars, hashVars, popped>>

QPopf ==
    /\ lastOp.n < MaxOps
    /\ LET r == popf(queue)
       IN /\ queue' = r.tasks
          /\ popped' = IF r.ret.some THEN Append(popped, r.ret.val) ELSE popped
          /\ lastOp' = Op("popf", r.ret, queue)
    /\ UNCHANGED <<daemonVars, hashVars, pushed>>

QPeek ==
    /\ lastOp.n < MaxOps
    /\ lastOp' = Op("peek", peek(queue), queue)
    /\ UNCHANGED <<daemonVars, hashVars, queue, pushed, popped>>

QLen ==
    /\ lastOp.n < MaxOps
    /\ lastOp' = Op("len", Some(len(queue)), queue)
    /\ UNCHANGED <<daemonVars, hashVars, queue, pushed, popped>>

QIsEmpty ==
    /\ lastOp.n < MaxOps
    /\ lastOp' = Op("is_empty", Some(is_empty(queue)), queue)
    /\ UNCHANGED <<daemonVars, hashVars, queue, pushed, popped>>

QNext == QPushb \/ QPopf \/ QPeek \/ QLen \/ QIsEmpty

QueueSpec == QInit /\ [][QNext]_vars

\* ------------------------------------------------------------------ hash_file
\* What a path may name.  A regular file has `len` bytes, each 0 except
\* those at the offsets in `ones`, which are 1.  The other kinds are the
\* paths on which one step of hash_file fails: a missing path cannot be
\* opened, a fifo cannot be seeked, a directory opens but cannot be read.
FileLens == {0, 1, BufferSize + MaxExtra}
Marks == {0, 1, BufferSize + 1}
RegularFiles ==
    {f \in [kind : {"regular"}, len : FileLens, ones : SUBSET Marks] :
        \A m \in f.ones : m < f.len}
FilePool ==
    RegularFiles \cup {[kind |-> k, len |-> 0, ones |-> {}] : k \in {"missing", "fifo", "dir"}}

\* pos: u64, as its bit 63 (`top`) and the value of its lower 63 bits.
PosPool ==
    [top : {0, 1},
     low : {0, 1, 2, BufferSize + MaxExtra, BufferSize + MaxExtra + 1}]

ErrFS == [ok |-> FALSE, err |-> "FS"]
OkHash(h) == [ok |-> TRUE, hash |-> h]

\* File::open(path)
CanOpen(file) == file.kind # "missing"

\* file.seek(SeekFrom::Start(pos)): lseek takes the offset as an i64, so a
\* pos with bit 63 set is a negative offset, which is rejected; a fifo
\* cannot be seeked.  A seek past the end of a file succeeds.
CanSeek(file, pos) == file.kind # "fifo" /\ pos.top = 0

\* file.read(&mut buffer) on the opened, seeked file
CanRead(file) == file.kind = "regular"

\* bytes_read: what is left of the file from pos on, at most one buffer.
bytes_read(file, pos) ==
    IF pos.low >= file.len THEN 0
    ELSE IF file.len - pos.low > BufferSize THEN BufferSize
    ELSE file.len - pos.low

\* &buffer[..bytes_read]: a byte sequence, given as its length and the
\* indexes (from 0) of its bytes that are 1.
buffer(file, pos) ==
    LET n == bytes_read(file, pos)
    IN [n    |-> n,
        ones |-> {m - pos.low : m \in {k \in file.ones : k >= pos.low /\ k < pos.low + n}}]

\* Sha3_256 of a byte sequence and its `{:x}` rendering: distinct byte
\* sequences are taken to have distinct digests.
Sha3_256(bytes) == <<"sha3_256", bytes>>
LowerHex(digest) == <<"hex", digest>>

\* A hash_file that drops the result of the seek and reads from offset 0.
hash_file_unseeked(file, pos) ==
    IF ~CanOpen(file) THEN ErrFS
    ELSE IF ~CanRead(file) THEN ErrFS
    ELSE OkHash(LowerHex(Sha3_256(buffer(file, [top |-> 0, low |-> 0]))))

\* A hash_file whose read error is dropped: nothing was read, so the empty
\* byte sequence is hashed.
hash_file_unchecked_read(file, pos) ==
    IF ~CanOpen(file) THEN ErrFS
    ELSE IF ~CanSeek(file, pos) THEN ErrFS
    ELSE IF ~CanRead(file) THEN OkHash(LowerHex(Sha3_256([n |-> 0, ones |-> {}])))
    ELSE OkHash(LowerHex(Sha3_256(buffer(file, pos))))

\* hash_file(path, pos), on what the path names.
hash_file(file, pos) ==
    IF ~CanOpen(file) THEN ErrFS
    ELSE IF ~CanSeek(file, pos) THEN ErrFS
    ELSE IF ~CanRead(file) THEN ErrFS
    ELSE OkHash(LowerHex(Sha3_256(buffer(file, pos))))

Call(file, pos) ==
    [called |-> TRUE, file |-> file, pos |-> pos, res |-> hash_file(file, pos)]

\* One call of hash_file on some path at some offset.
HashFile ==
    /\ \E file \in FilePool, pos \in PosPool : hashed' = Call(file, pos)
    /\ hashedBefore' = hashed
    /\ UNCHANGED <<daemonVars, queueVars>>

HashSpec == QInit /\ [][HashFile]_vars

\* ------------------------------------------------------------------ claims
Range(f) == {f[i] : i \in DOMAIN f}
IsPrefix(a, b) == Len(a) <= Len(b) /\ a = SubSeq(b, 1, Len(a))
Parsed == mainPc \in {"spawn", "join"}

\* C1: for every host, at most one backup task for that host is running at
\* any time; a second task for the host never runs while the previous one
\* has not finished.
C1_AtMostOneRunningPerHost ==
    \A i, j \in DOMAIN tasks :
        (i # j /\ tasks[i].host = tasks[j].host) => ~(Running(tasks[i]) /\ Running(tasks[j]))

\* C2: the scheduler only pushes due tasks onto the queue and never starts
\* one itself: every task that has started running was popped from the
\* queue by the executor.
C2_RunningTasksWereDequeued ==
    \A i \in DOMAIN tasks : tasks[i].pc # "spawned" => i \in dequeued

\* C3: the queue is FIFO: the values popf has returned are a prefix of the
\* values pushed, in push order, what is still queued is the rest; popf on
\* a non-empty queue returns its head, and popf on an empty queue returns
\* none and leaves the queue empty.
C3_QueueIsFifo ==
    /\ IsPrefix(popped, pushed)
    /\ popped \o queue = pushed
    /\ lastOp.op = "popf" =>
         IF lastOp.before = << >>
         THEN ~lastOp.ret.some /\ queue = << >>
         ELSE lastOp.ret = Some(Head(lastOp.before))

\* C3 witness: alpha, beta, alpha were pushed and popped in that order, and
\* one more popf found the queue empty.
C3_Witness ==
    /\ pushed = <<[host |-> "alpha"], [host |-> "beta"], [host |-> "alpha"]>>
    /\ popped = pushed
    /\ lastOp.op = "popf"
    /\ lastOp.before = << >>

\* C4: a due-check made in a minute in which the host's schedule has an
\* instant answers due, however many seconds past that instant it is made.
C4_DueWhenMinuteMatches ==
    \A i \in DOMAIN checks : checks[i].fires => checks[i].due

\* C5: no host is reported due by two due-checks made in the same
\* wall-clock minute, so no host gets two tasks in one minute.
C5_DueAtMostOncePerMinute ==
    \A a, b \in dueLog :
        (a.host = b.host /\ a.minute = b.minute) => a.tick = b.tick

\* C6: while the scheduler loop is running the executor loop is eventually
\* entered: holding the shared scheduler state never keeps the other
\* activity out for good.
C6_ExecutorEventuallyRuns ==
    (schedPc = "loop") ~> (execPc = "loop")

\* C7: a host whose cron expression fails to parse is reported as
\* InvalidInput and is still scheduled (with the default daily schedule).
C7_ParseFailureFallsBack ==
    Parsed =>
      \A i \in DOMAIN settings :
         LET h == settings[i]
         IN (h.hostname # "dummy" /\ h.cron_schedule.some
               /\ ~from_str(h.cron_schedule.val).ok)
            => /\ Trap("InvalidInput", h.hostname) \in Range(log)
               /\ \E k \in DOMAIN schedules : schedules[k].host = h

\* C8: a host without a cron expression does not make startup fail: a
\* Missing warning is logged and the host is in the schedule set.
C8_MissingCronDefaults ==
    /\ mainPc # "panic"
    /\ Parsed =>
         \A i \in DOMAIN settings :
            LET h == settings[i]
            IN (h.hostname # "dummy" /\ ~h.cron_schedule.some)
               => /\ Trap("Missing", h.hostname) \in Range(log)
                  /\ \E k \in DOMAIN schedules : schedules[k].host = h

\* C9: the step in which a backup task fails logs one trap for the task's
\* host and changes nothing else: the scheduler loop, the executor, main,
\* the interval and every other task are as they were; after a failure the
\* scheduler loop is still running and its next tick can still fire once a
\* worker thread is free.
C9_TaskFailureIsContained ==
    /\ [][\A i \in DOMAIN tasks :
          (tasks[i].pc # "failed" /\ tasks'[i].pc = "failed") =>
             /\ schedPc' = schedPc /\ execPc' = execPc /\ mainPc' = mainPc
             /\ mutex' = mutex /\ base' = base /\ ticks' = ticks
             /\ Len(log') = Len(log) + 1
             /\ log'[Len(log')].host = tasks[i].host
             /\ SubSeq(log', 1, Len(log)) = log
             /\ DOMAIN tasks' = DOMAIN tasks
             /\ \A j \in DOMAIN tasks : j # i => tasks'[j] = tasks[j]]_vars
    /\ []((\E i \in DOMAIN tasks : tasks[i].pc = "failed") =>
            /\ schedPc = "loop"
            /\ (ticks < MaxTicks /\ Len(tasks) + Len(schedules) <= MaxTasks
                  /\ FreeWorker)
                  => ENABLED Tick)

\* C9 witness: a task failed while the scheduler loop went on, and a later
\* tick started another task, while a third task was in flight.
C9_Witness ==
    /\ schedPc = "loop"
    /\ \E i, j \in DOMAIN tasks :
         /\ tasks[i].pc = "failed"
         /\ tasks[j].afterFailure
         /\ tasks[j].tick > tasks[i].tick
         /\ Trap("FS", tasks[i].host) \in Range(log)
         /\ \E k \in DOMAIN tasks : k # i /\ Running(tasks[k])

\* C10: a task that finds its host's record missing goes on to the backup
\* with an empty record instead of failing.
C10_MissingRecordIsFirstBackup ==
    [][\A i \in DOMAIN tasks :
          (tasks[i].pc = "spawned" /\ recordFile[tasks[i].host] = "missing"
             /\ tasks'[i] # tasks[i])
          => tasks'[i].pc = "backup"]_vars

\* C11: when loading the global configuration or the settings fails, main
\* has returned the FS error, no schedule was parsed, nothing was logged by
\* parse_schedules, and neither activity was started or holds the mutex.
C11_LoadFailureIsFatal ==
    exitErr = "FS" =>
       /\ mainPc = "exit_err"
       /\ schedules = << >>
       /\ log = << >>
       /\ schedPc = "none"
       /\ execPc = "none"
       /\ mutex = "free"
       /\ tasks = << >>
       /\ ~ENABLED Next

\* C11 witness: main has returned the FS error of a failed load.
C11_Witness ==
    /\ exitErr = "FS"
    /\ mainPc = "exit_err"
    /\ schedPc = "none"
    /\ execPc = "none"

\* C12: the scheduling loop never waits for a backup task: whatever tasks
\* are still running, the next tick of a running scheduler loop can be
\* processed (within the explored ticks and tasks).
C12_TickNeverWaitsForTasks ==
    (schedPc = "loop" /\ ticks < MaxTicks /\ Len(tasks) + Len(schedules) <= MaxTasks)
       => ENABLED Tick

\* C13: a task whose host's record file is corrupt ends at its first step
\* with an FS trap naming the host; the record file is left as it was, and
\* no task is ever in or past the transfer phase with a corrupt record.
C13_CorruptRecordAbortsRun ==
    /\ [][\A i \in DOMAIN tasks :
          (/\ tasks[i].pc = "spawned"
           /\ recordFile[tasks[i].host] = "corrupt"
           /\ i \in DOMAIN tasks'
           /\ tasks'[i] # tasks[i]) =>
             /\ tasks'[i].pc = "failed"
             /\ log' = Append(log, Trap("FS", tasks[i].host))
             /\ recordFile' = recordFile]_vars
    /\ [](\A i \in DOMAIN tasks :
            tasks[i].pc \in {"backup", "done"} => recordFile[tasks[i].host] # "corrupt")

\* C13 witness: a task has failed on a corrupt record, which is still
\* corrupt, and the FS trap for its host is in the log.
C13_Witness ==
    \E i \in DOMAIN tasks :
        /\ tasks[i].pc = "failed"
        /\ recordFile[tasks[i].host] = "corrupt"
        /\ Trap("FS", tasks[i].host) \in Range(log)

\* The place of a host in the settings host list.
PosInSettings(h) == CHOOSE i \in DOMAIN settings : settings[i] = h

\* C14: the parsed schedules keep the order of the settings host list; a
\* tick evaluates one due-check per schedule, in that order, and appends
\* exactly one freshly spawned task per due-check that answered true, in
\* the same order, and nothing for a due-check that answered false.
C14_TickFollowsConfigurationOrder ==
    /\ [](/\ \A k \in DOMAIN schedules : schedules[k].host \in Range(settings)
          /\ \A k, l \in DOMAIN schedules :
                k < l => PosInSettings(schedules[k].host) < PosInSettings(schedules[l].host))
    /\ [][ticks' = ticks + 1 =>
            LET due == SelectSeq(checks', LAMBDA c : c.due)
            IN /\ Len(checks') = Len(schedules)
               /\ \A k \in DOMAIN schedules : checks'[k].host = schedules[k].host.hostname
               /\ Len(tasks') = Len(tasks) + Len(due)
               /\ SubSeq(tasks', 1, Len(tasks)) = tasks
               /\ \A k \in 1..Len(due) :
                     /\ tasks'[Len(tasks) + k].host = due[k].host
                     /\ tasks'[Len(tasks) + k].pc = "spawned"]_vars

\* C14 witness: a tick evaluated two schedules, the first (first in the
\* settings too) not due and the second due, and started one task, for the
\* second host only.
C14_Witness ==
    /\ ticks = 1
    /\ Len(settings) = 2
    /\ Len(checks) = 2
    /\ checks[1].host = settings[1].hostname
    /\ checks[2].host = settings[2].hostname
    /\ ~checks[1].due
    /\ checks[2].due
    /\ Len(tasks) = 1
    /\ tasks[1].host = checks[2].host
    /\ tasks[1].pc = "spawned"

\* C15: peek, len and is_empty leave the queue as it was; peek returns the
\* head, or none on an empty queue; a popf made right after a peek returns
\* what the peek returned; is_empty answers true exactly when len is 0.
C15_ReadsLeaveQueueUnchanged ==
    /\ [](lastOp.op \in {"peek", "len", "is_empty"} => queue = lastOp.before)
    /\ [](lastOp.op = "peek" =>
            lastOp.ret = IF lastOp.before = << >> THEN NoneOpt
                         ELSE Some(Head(lastOp.before)))
    /\ [](lastOp.op = "len" => lastOp.ret = Some(Len(lastOp.before)))
    /\ [](lastOp.op = "is_empty" => (lastOp.ret.val <=> len(queue) = 0))
    /\ [][(lastOp.op = "peek" /\ lastOp'.op = "popf") => lastOp'.ret = lastOp.ret]_vars

\* C15 witness: a peek at a queue holding alpha then beta returned alpha and
\* both are still queued.
C15_Witness ==
    /\ lastOp.op = "peek"
    /\ lastOp.ret = Some([host |-> "alpha"])
    /\ queue = <<[host |-> "alpha"], [host |-> "beta"]>>
    /\ popped # << >>

\* C18: the queue's length is the number of values pushed minus the number
\* of values popf returned; pushb appends its value whatever is already
\* queued, a value equal to a queued one included; popf on an empty queue
\* leaves it empty.
C18_LenCountsPushesAndPops ==
    /\ len(queue) = Len(pushed) - Len(popped)
    /\ lastOp.op = "pushb" => queue = Append(lastOp.before, lastOp.ret.val)
    /\ (lastOp.op = "popf" /\ ~lastOp.ret.some) => queue = << >>

\* C18 witness: after a push and a pop, alpha was pushed onto a queue that
\* already held alpha, and is queued twice.
C18_Witness ==
    /\ lastOp.op = "pushb"
    /\ lastOp.before = <<[host |-> "alpha"]>>
    /\ queue = <<[host |-> "alpha"], [host |-> "alpha"]>>
    /\ Len(popped) = 1
    /\ Len(pushed) = 3

\* The bytes of a regular file at the offsets pos .. pos+BufferSize-1,
\* read off the file itself: how many there are and which of them are 1.
WindowOf(file, pos) ==
    LET inside == {k \in 0..(file.len - 1) : k >= pos.low /\ k < pos.low + BufferSize}
    IN [n |-> Cardinality(inside), ones |-> {k - pos.low : k \in file.ones \cap inside}]

\* The hash of the empty byte sequence.
EmptyHash == LowerHex(Sha3_256([n |-> 0, ones |-> {}]))

\* two successive calls on regular files at the same offset
SameOffsetCalls ==
    /\ hashed.called
    /\ hashedBefore.called
    /\ hashed.file.kind = "regular"
    /\ hashedBefore.file.kind = "regular"
    /\ hashed.pos = hashedBefore.pos

\* C16 as stated: two regular files with the same bytes in the window get
\* the same hash, and a call with pos at or past the end of a regular file
\* succeeds with the hash of the empty byte sequence, whatever pos is.
C16_HashesOnlyTheWindow ==
    /\ (SameOffsetCalls /\ WindowOf(hashed.file, hashed.pos) = WindowOf(hashedBefore.file, hashed.pos))
          => (hashed.res.ok /\ hashed.res = hashedBefore.res)
    /\ (hashed.called /\ hashed.file.kind = "regular"
          /\ (hashed.pos.top = 1 \/ hashed.pos.low >= hashed.file.len))
          => hashed.res = OkHash(EmptyHash)

\* C16 amended: for an offset lseek accepts (bit 63 clear), two regular
\* files with the same bytes in the window get the same hash, and a call
\* with pos at or past the end of the file succeeds with the hash of the
\* empty byte sequence; an offset with bit 63 set gets the FS error.
C16_HashesOnlyTheWindowOfValidOffsets ==
    /\ (SameOffsetCalls /\ hashed.pos.top = 0
          /\ WindowOf(hashed.file, hashed.pos) = WindowOf(hashedBefore.file, hashed.pos))
          => (hashed.res.ok /\ hashed.res = hashedBefore.res)
    /\ (hashed.called /\ hashed.file.kind = "regular" /\ hashed.pos.top = 0
          /\ hashed.pos.low >= hashed.file.len)
          => hashed.res = OkHash(EmptyHash)
    /\ (hashed.called /\ hashed.pos.top = 1) => hashed.res = ErrFS

\* C16 witness: two files that differ before and after the window but not
\* inside it were hashed at offset 1 and got the same hash, which is not
\* the hash of the empty sequence.
C16_Witness ==
    /\ SameOffsetCalls
    /\ hashed.pos = [top |-> 0, low |-> 1]
    /\ hashed.file.len = BufferSize + MaxExtra
    /\ hashedBefore.file.len = BufferSize + MaxExtra
    /\ hashed.file.ones = {1}
    /\ hashedBefore.file.ones = {0, 1, BufferSize + 1}
    /\ hashed.res.ok
    /\ hashed.res = hashedBefore.res
    /\ hashed.res # OkHash(EmptyHash)

\* C17: a call of hash_file returns Ok with a hash exactly when the open,
\* the seek and the read all succeed; otherwise it returns the FS error and
\* no hash; a call at offset 0 on an existing regular file returns Ok.
C17_HashFileFailsWithFS ==
    hashed.called =>
       /\ hashed.res.ok <=>
             (CanOpen(hashed.file) /\ CanSeek(hashed.file, hashed.pos) /\ CanRead(hashed.file))
       /\ hashed.res.ok => DOMAIN hashed.res = {"ok", "hash"}
       /\ ~hashed.res.ok => (hashed.res.err = "FS" /\ DOMAIN hashed.res = {"ok", "err"})
       /\ (hashed.file.kind = "regular" /\ hashed.pos = [top |-> 0, low |-> 0])
             => hashed.res.ok

\* C17 witness: a call on a directory, whose read fails, returned the FS
\* error, and then a call at offset 0 on a one-byte file returned a hash.
C17_Witness ==
    /\ hashedBefore.called
    /\ hashedBefore.file.kind = "dir"
    /\ hashedBefore.pos.top = 0
    /\ hashedBefore.res = ErrFS
    /\ hashed.called
    /\ hashed.file = [kind |-> "regular", len |-> 1, ones |-> {0}]
    /\ hashed.pos = [top |-> 0, low |-> 0]
    /\ hashed.res.ok

====
